---- MODULE Spec2Model ----
(***************************************************************************)
(* Session lifecycle manager of padma-baileys-wapp-api (src/src/helpers.js *)
(* with the Redis credential store of use_redis_auth_state.js).            *)
(*                                                                         *)
(* What is modelled                                                        *)
(*   sessions, reconnectionAttempts   the two module-level Maps            *)
(*   socks      every socket makeWASocket has returned: its session id,    *)
(*              whether createSession attached the "connection.update"     *)
(*              listener to it, and whether it is still open               *)
(*   calls      the createSession calls that passed the sessions.has check *)
(*              and have not returned yet                                  *)
(*   timers     the pending setTimeout callbacks of the transient branch   *)
(*   redis      the hash kept per session id (field "creds" and one keyed  *)
(*              field)                                                     *)
(*   now        Date.now(), in milliseconds                                *)
(*   last       the operation the last step performed (an observation,     *)
(*              read by the properties only)                               *)
(*   probe      inputs and outputs of the pure functions                   *)
(*   waiters    per createSession closure (known by the socket the call    *)
(*              opened): qrResolver and the promises getNewQr returned     *)
(*   boot       the startup of server.js: where restoreSessionsFromRedis   *)
(*              stands and whether app.listen has been called              *)
(*   snapshots  the ids whose "<id>:store" key (the cache snapshot that    *)
(*              makeRedisStore writes every 10 s) exists in Redis          *)
(*   unhandled  the handlers whose promise was rejected with nobody        *)
(*              awaiting it (an unhandled rejection of the process)        *)
(*   intervals  the setInterval timers of makeRedisStore, known by the     *)
(*              closure of the createSession call that made the store      *)
(*   pipe       the Redis commands the client has issued and Redis has not *)
(*              executed yet, oldest first                                 *)
(*   auth       per session id, the creds object of the auth state that    *)
(*              useRedisAuthState returned, and whether a "creds.update"   *)
(*              was emitted for it                                         *)
(*   users      the sockets whose user field is set (sock.user)            *)
(*                                                                         *)
(* Redis commands of one client are executed in the order they are issued, *)
(* so a command takes effect in the step that issues it and the await on   *)
(* its reply is the point where other handlers may run.  The await on      *)
(* makeConfiggedWASocket resumes in the same macrotask (the function has   *)
(* no await of its own), so no event or timer runs in between.             *)
(***************************************************************************)
EXTENDS Integers, Sequences, FiniteSets, Bags, TLC

VARIABLES sessions, reconnectionAttempts, socks, calls, timers, redis, now,
          last, probe, waiters, boot, snapshots, unhandled, intervals, pipe,
          auth, users

\* The variables that only the specifications of failures, of the store and
\* of the HTTP routes move.
more == <<unhandled, intervals, pipe, auth, users>>

vars == <<sessions, reconnectionAttempts, socks, calls, timers, redis, now,
          last, probe, waiters, boot, snapshots, unhandled, intervals, pipe,
          auth, users>>

----------------------------------------------------------------------------
(* Bounds of the model *)

MaxCalls == 1

MaxSocks == 2

MaxTicks == 2

MaxTimers == 2

MaxProbeAttempts == 12

MaxPromises == 2

MaxVersion == 2

MaxPipe == 2

MaxBatch == 2

MaxJidLen == 6

(* Program constants *)

BaseDelay == 1000

MaxDelay == 300000

JitterRange == 1000

----------------------------------------------------------------------------
Ids == {"s1"}

TransientReasons ==
    {"timedOut", "connectionClosed", "connectionLost", "connectionReplaced"}

\* "badSession" stands for every status code the handler does not name.
Reasons == {"restartRequired", "loggedOut", "badSession"} \cup TransientReasons

Nil == "nil"

\* null of JavaScript
Null == [null |-> TRUE]

\* A JavaScript value: what it holds (data), how its binary parts are held
\* ("Buffer", the plain "object" that JSON.parse makes of a serialised
\* Buffer, or "none"), and whether it is an instance of a protobuf class.
Value(data, bin, proto) == [data |-> data, bin |-> bin, proto |-> proto]

\* JSON.stringify: a Buffer is written as {type: 'Buffer', data: [...]}, the
\* class of an object is not written.
JSONstringify(v) ==
    "{data:" \o ToString(v.data) \o ",bin:"
        \o (IF v.bin = "Buffer" THEN "object" ELSE v.bin) \o "}"

\* What JSON.parse (without a reviver) can return: plain objects only.
Plain == {Value(data, bin, FALSE) : data \in 0..MaxVersion, bin \in {"object", "none"}}

\* JSON.parse of a text that JSON.stringify wrote
JSONparse(str) == CHOOSE v \in Plain : JSONstringify(v) = str

\* initAuthCreds(): fresh keys, held in Buffers
InitAuthCreds == Value(0, "Buffer", FALSE)

\* The credentials of a paired device, and a key of the signal store.
PairedCreds == Value(1, "Buffer", FALSE)

KeyItem == Value(1, "Buffer", FALSE)

EmptyHash == [creds |-> Nil, keys |-> Nil]

\* sessions.get(id) is undefined; a registered session is known by its sock,
\* which is a fresh socket at every sessions.set of the program.
NoSession == [sock |-> 0]

\* An id without an entry in reconnectionAttempts: every stored entry has
\* attempts >= 1, and the handler reads a missing entry as this record.
NoInfo == [attempts |-> 0, lastAttempt |-> 0, backoffMs |-> 0]

NoOp == [op |-> "init", id |-> Nil, cur |-> FALSE, reason |-> Nil, rival |-> 0,
         had |-> FALSE, out |-> 0]

\* The process after startup: restoreSessionsFromRedis has run against an
\* empty Redis and the server listens.
Booted == [pc |-> "done", order |-> <<>>, i |-> 1, sessionIds |-> <<>>, j |-> 1,
           failed |-> {}, aborted |-> FALSE, runs |-> 1, listening |-> TRUE]

\* A promise that is not resolved; a resolved one is the QR it resolved with.
Pending == 0

QrValues == {1, 2}

\* A closure of createSession right after the call: qrResolver undefined
\* (0), getNewQr never called.
NoWaiter == [qrResolver |-> 0, promises |-> <<>>]

NoProbe == [attempts |-> 0, j1 |-> 0, j2 |-> 0, lo |-> 0, hi |-> 0, done |-> FALSE]

\* Math.random() * 1000 lies in [0, 1000): the lifecycle model draws its
\* midpoint, the backoff probe draws JitterSamples.
Jitters == {JitterRange \div 2}

JitterSamples == {0, 1, JitterRange \div 2, JitterRange - 1}

\* The clock advances in steps of one and a half base delays.
TickMs == BaseDelay + BaseDelay \div 2

MaxNow == MaxTicks * TickMs

Min(a, b) == IF a <= b THEN a ELSE b

----------------------------------------------------------------------------
(* The program state the handlers read and write, as one record *)

St == [sessions |-> sessions, reconnectionAttempts |-> reconnectionAttempts,
       socks |-> socks, timers |-> timers, redis |-> redis, waiters |-> waiters]

Commit(st) ==
    /\ sessions' = st.sessions
    /\ reconnectionAttempts' = st.reconnectionAttempts
    /\ socks' = st.socks
    /\ timers' = st.timers
    /\ redis' = st.redis
    /\ waiters' = st.waiters

----------------------------------------------------------------------------
(* helpers.js: backoff *)

calculateBackoffNoCap(attempts, jitter) == BaseDelay * 2^attempts + jitter

\* Math.min(baseDelay * Math.pow(2, attempts), maxDelay) + Math.random() * 1000
calculateBackoff(attempts, jitter) ==
    Min(BaseDelay * 2^attempts, MaxDelay) + jitter

shouldAttemptAlways(st, sessionId, t) == TRUE

shouldAttemptReconnection(st, sessionId, t) ==
    LET reconnectInfo == st.reconnectionAttempts[sessionId] IN
    IF reconnectInfo = NoInfo THEN TRUE
    ELSE t - reconnectInfo.lastAttempt >= reconnectInfo.backoffMs

----------------------------------------------------------------------------
(* use_redis_auth_state.js *)

useRedisAuthStateNull(st, sessionId) ==
    IF st.redis[sessionId].creds = Nil THEN Null
    ELSE JSONparse(st.redis[sessionId].creds)

\* credsStr ? JSON.parse(credsStr) : initAuthCreds()
useRedisAuthState(st, sessionId) ==
    IF st.redis[sessionId].creds = Nil THEN InitAuthCreds
    ELSE JSONparse(st.redis[sessionId].creds)

\* hSet(sessionId, field, value): saveCreds writes field "creds", keys.set a
\* keyed field
hSet(st, sessionId, field, value) ==
    [st EXCEPT !.redis[sessionId][field] = value]

----------------------------------------------------------------------------
(* helpers.js: sockets *)

\* sock.end(): the socket is closed; closing a closed socket changes nothing
end(st, h) == [st EXCEPT !.socks[h].live = FALSE]

\* makeWASocket plus the "error" and "creds.update" listeners.  The
\* "connection.update" listener is not attached here: createSession attaches
\* it to the socket it creates itself.
makeConfiggedWASocket(st, id) ==
    [st EXCEPT !.socks =
        Append(@, [id |-> id, listens |-> FALSE, live |-> TRUE])]

\* A pending callback: the id of its closure, when it is due, and a copy
\* number, since setTimeout keeps every callback, also two that are alike.
Timer(st, id, due, n) == [id |-> id, due |-> due, n |-> n]

FreeCopy(st, id, due) ==
    CHOOSE n \in 1..(Cardinality(st.timers) + 1) :
        /\ Timer(st, id, due, n) \notin st.timers
        /\ \A m \in 1..(n - 1) : Timer(st, id, due, m) \in st.timers

setTimeout(st, id, due) ==
    [st EXCEPT !.timers = @ \cup {Timer(st, id, due, FreeCopy(st, id, due))}]

deleteSessionKeepStore(st, sessionId) ==
    LET session == st.sessions[sessionId]
        s1 == IF session.sock # 0 THEN end(st, session.sock) ELSE st
    IN  [s1 EXCEPT !.sessions[sessionId] = NoSession,
                   !.reconnectionAttempts[sessionId] = NoInfo,
                   !.redis[sessionId].creds = Nil]

deleteSessionCounts(st, sessionId) ==
    LET session == st.sessions[sessionId]
        s1 == IF session.sock # 0 THEN end(st, session.sock) ELSE st
    IN  [s1 EXCEPT !.sessions[sessionId] = NoSession,
                   !.reconnectionAttempts[sessionId].attempts = Min(@ + 1, 3),
                   !.redis[sessionId] = EmptyHash]

deleteSession(st, sessionId) ==
    LET session == st.sessions[sessionId]
        s1 == IF session.sock # 0 THEN end(st, session.sock) ELSE st
    IN  [s1 EXCEPT !.sessions[sessionId] = NoSession,
                   !.reconnectionAttempts[sessionId] = NoInfo,
                   !.redis[sessionId] = EmptyHash]

\* "Clean up old socket before creating new one"
cleanupOldSocket(st, id, sock) ==
    LET oldSession == st.sessions[id] IN
    IF oldSession.sock # 0 /\ oldSession.sock # sock
    THEN end(st, oldSession.sock) ELSE st

\* The restartRequired branch of the "connection.update" listener.
restartBranch(st, id, sock) ==
    LET s1 == cleanupOldSocket(st, id, sock)
        s2 == makeConfiggedWASocket(s1, id)
        newSock == Len(s2.socks)
    IN  [s2 EXCEPT !.sessions[id] = [sock |-> newSock],
                   !.reconnectionAttempts[id] = NoInfo]

transientBranchDelayFirst(st, id, sock, t, jitter) ==
    IF shouldAttemptReconnection(st, id, t)
    THEN LET s1 == cleanupOldSocket(st, id, sock)
             old == s1.reconnectionAttempts[id]
             backoffMs == calculateBackoff(old.attempts, jitter)
             s2 == [s1 EXCEPT !.reconnectionAttempts[id] =
                        [attempts |-> old.attempts + 1, lastAttempt |-> t,
                         backoffMs |-> backoffMs]]
         IN  setTimeout(s2, id, t + backoffMs)
    ELSE st

\* The transient branch: counted when shouldAttemptReconnection, else skipped.
transientBranch(st, id, sock, t, jitter) ==
    IF shouldAttemptReconnection(st, id, t)
    THEN LET s1 == cleanupOldSocket(st, id, sock)
             old == s1.reconnectionAttempts[id]
             attempts == old.attempts + 1
             backoffMs == calculateBackoff(attempts, jitter)
             s2 == [s1 EXCEPT !.reconnectionAttempts[id] =
                        [attempts |-> attempts, lastAttempt |-> t,
                         backoffMs |-> backoffMs]]
         IN  setTimeout(s2, id, t + backoffMs)
    ELSE st

\* The final else of the listener: "Socket closed with unknown reason".
unknownBranch(st, id) == deleteSession(st, id)

loggedOutBranch(st, id) == deleteSession(st, id)

\* The branch the listener's if-chain takes for a close reason.
ReasonBranch(reason) ==
    IF reason = "restartRequired" THEN "restartRequired"
    ELSE IF reason = "loggedOut" THEN "loggedOut"
    ELSE IF reason \in TransientReasons THEN "transient"
    ELSE "unknown"

\* The listener createSession attaches, for update.connection === "close".
\* sock is the socket the listener was attached to, id the id of its closure,
\* branch the branch of the if-chain that the reason reported selects.
onConnectionClose(st, sock, branch, t, jitter) ==
    LET id == st.socks[sock].id
    IN  IF branch = "restartRequired" THEN restartBranch(st, id, sock)
        ELSE IF branch = "loggedOut" THEN loggedOutBranch(st, id)
        ELSE IF branch = "transient" THEN transientBranch(st, id, sock, t, jitter)
        ELSE unknownBranch(st, id)

reconnectTimerResetsAnyway(st, tm, ok) ==
    LET s0 == [st EXCEPT !.timers = @ \ {tm}] IN
    IF ok
    THEN LET s1 == makeConfiggedWASocket(s0, tm.id)
             newSock == Len(s1.socks)
         IN  [s1 EXCEPT !.sessions[tm.id] = [sock |-> newSock],
                        !.reconnectionAttempts[tm.id] = NoInfo]
    ELSE [s0 EXCEPT !.reconnectionAttempts[tm.id] = NoInfo]

\* The setTimeout callback of the transient branch; ok is whether
\* makeConfiggedWASocket returned (else it threw and the catch logged it).
reconnectTimer(st, tm, ok) ==
    LET s0 == [st EXCEPT !.timers = @ \ {tm}] IN
    IF ok
    THEN LET s1 == makeConfiggedWASocket(s0, tm.id)
             newSock == Len(s1.socks)
         IN  [s1 EXCEPT !.sessions[tm.id] = [sock |-> newSock],
                        !.reconnectionAttempts[tm.id] = NoInfo]
    ELSE s0

\* The tail of createSession after the two loads: open the socket, attach
\* the listener, publish the session.
publishSession(st, id) ==
    LET s1 == makeConfiggedWASocket(st, id)
        sock == Len(s1.socks)
    IN  [s1 EXCEPT !.socks[sock].listens = TRUE,
                   !.waiters = @ @@ (sock :> NoWaiter),
                   !.sessions[id] = [sock |-> sock]]

\* resolve(value) of a promise: settles it if it is pending, else nothing.
resolve(promise, value) == IF promise = Pending THEN value ELSE promise

onQrResetsBackoff(st, c, qr) ==
    [st EXCEPT !.reconnectionAttempts[st.socks[c].id] = NoInfo]

\* The listener of closure c for an update that carries a qr:
\* if (qr && qrResolver) { qrResolver(qr); qrResolver = null; }
onQr(st, c, qr) ==
    LET w == st.waiters[c] IN
    IF w.qrResolver # 0
    THEN [st EXCEPT !.waiters[c].promises[w.qrResolver] = resolve(@, qr),
                    !.waiters[c].qrResolver = 0]
    ELSE st

getNewQrFirstWins(st, c) ==
    LET w == st.waiters[c] IN
    [st EXCEPT !.waiters[c].promises = Append(@, Pending),
               !.waiters[c].qrResolver =
                   IF w.qrResolver # 0 THEN w.qrResolver ELSE Len(w.promises) + 1]

\* getNewQr of closure c: a new promise whose resolve becomes qrResolver.
getNewQr(st, c) ==
    LET w == st.waiters[c] IN
    [st EXCEPT !.waiters[c].promises = Append(@, Pending),
               !.waiters[c].qrResolver = Len(w.promises) + 1]

createExistingReopens(st, id) == publishSession(st, id)

\* createSession when sessions.has(id): the early return, nothing else runs.
createExisting(st, id) == st

getActiveSessions == {id \in DOMAIN sessions : sessions[id] # NoSession}

----------------------------------------------------------------------------
(* State machine *)

\* No handler has failed; the specifications that do not follow the cache
\* snapshots keep no interval, those that do not follow the Redis connection
\* have every command executed as it is issued.
InitMore ==
    /\ unhandled = {}
    /\ intervals = {}
    /\ pipe = <<>>
    /\ auth = <<>>
    /\ users = {}

Init ==
    /\ sessions = [id \in Ids |-> NoSession]
    /\ reconnectionAttempts = [id \in Ids |-> NoInfo]
    /\ socks = <<>>
    /\ calls = EmptyBag
    /\ timers = {}
    /\ redis = [id \in Ids |-> EmptyHash]
    /\ now = 0
    /\ last = NoOp
    /\ probe = NoProbe
    /\ waiters = <<>>
    /\ boot = Booted
    /\ snapshots = {}
    /\ InitMore

\* What a step is observed as: the operation; its session id; cur, whether
\* the socket that reported was the one registered for the id (for
\* deleteSession: whether the id was registered); had, whether the store held
\* a credential blob and a keyed field for the id before the step; the branch
\* taken for a close reason; and, for a createSession call that returns, the
\* socket of the session a racing call has returned meanwhile (0 when there is
\* none).  Steps no property reads are observed as "step".
Op(op, id, cur, reason, rival) ==
    [op |-> op, id |-> id, cur |-> cur, reason |-> reason, rival |-> rival,
     had |-> redis[id].creds # Nil /\ redis[id].keys # Nil, out |-> 0]

Step == [op |-> "step", id |-> Nil, cur |-> FALSE, reason |-> Nil, rival |-> 0,
         had |-> FALSE, out |-> 0]

Registered(h) == sessions[socks[h].id].sock = h

\* A createSession call in flight: its id and the socket of the first session
\* a call it races with has returned meanwhile (0 when there is none).  Calls
\* that are alike are counted, not told apart.
Call(id, rival) == SetToBag({[id |-> id, rival |-> rival]})

Raced(call, id, sock) ==
    IF call.id = id /\ call.rival = 0 THEN [call EXCEPT !.rival = sock] ELSE call

\* createSession(id) up to its first await, when id is not registered.  The
\* credential load and the cache load that follows it touch nothing of the
\* state modelled here, so the two awaits are one point of suspension.
CreateStart(id, maxCalls) ==
    /\ sessions[id] = NoSession
    /\ BagCardinality(calls) < maxCalls
    /\ calls' = calls (+) Call(id, 0)
    /\ last' = Step
    /\ UNCHANGED <<sessions, reconnectionAttempts, socks, timers, redis, now, probe,
                   waiters,
                   boot, snapshots, more>>

\* createSession(id) when id is registered: returns sessions.get(id); out is
\* the socket of the session returned.
CreateExisting(id) ==
    /\ sessions[id] # NoSession
    /\ Commit(createExisting(St, id))
    /\ last' = [Op("createExisting", id, TRUE, Nil, 0) EXCEPT !.out = sessions[id].sock]
    /\ UNCHANGED <<calls, now, probe, boot, snapshots, more>>

\* The loads have replied; the rest of createSession runs to its return.
\* The calls for the same id that are still in flight have raced with this
\* one: each remembers the first session a racing call returned.
CreateFinish(call) ==
    /\ BagIn(call, calls)
    /\ Len(socks) < MaxSocks
    /\ LET st == publishSession(St, call.id)
           sock == Len(st.socks)
           rest == calls (-) Call(call.id, call.rival)
       IN
       /\ Commit(st)
       \* sock is fresh, so no call in flight carries it yet
       /\ calls' = [c \in {Raced(d, call.id, sock) : d \in DOMAIN rest} |->
                      rest[CHOOSE d \in DOMAIN rest : Raced(d, call.id, sock) = c]]
       /\ last' = Op("createFinish", call.id, TRUE, Nil, call.rival)
    /\ UNCHANGED <<now, probe,
                   boot, snapshots, more>>

\* A socket that is still open reports connection "open": the listener has no
\* branch for it.
ConnectionOpen(h) ==
    /\ h \in DOMAIN socks
    /\ socks[h].live
    /\ last' = Op("open", socks[h].id, Registered(h), Nil, 0)
    /\ UNCHANGED <<sessions, reconnectionAttempts, socks, calls, timers, redis,
                   now, probe, waiters,
                   boot, snapshots, more>>

\* A socket that carries the listener reports connection "close" with some
\* reason; the listener reads the reason only to select its branch.
ConnectionClose(h, branch, jitter) ==
    /\ h \in DOMAIN socks
    /\ socks[h].listens
    /\ LET st == onConnectionClose(end(St, h), h, branch, now, jitter) IN
       /\ Len(st.socks) <= MaxSocks
       /\ Cardinality(st.timers) <= MaxTimers
       /\ Commit(st)
    /\ last' = Op("close", socks[h].id, Registered(h), branch, 0)
    /\ UNCHANGED <<calls, now, probe,
                   boot, snapshots, more>>

\* An open socket that does not carry the listener (one that
\* makeConfiggedWASocket returned to the restartRequired branch or to the
\* reconnect timer) reports connection "close": only the store and the
\* "error" and "creds.update" listeners are bound to it, so nothing runs.
ReplacementClose(h, branch) ==
    /\ h \in DOMAIN socks
    /\ socks[h].live
    /\ ~socks[h].listens
    /\ Commit(end(St, h))
    /\ last' = Op("close", socks[h].id, Registered(h), branch, 0)
    /\ UNCHANGED <<calls, now, probe,
                   boot, snapshots, more>>

\* An open socket reports "creds.update" (saveCreds) or writes a keyed field
\* (state.keys.set).
StoreWrite(h, field) ==
    /\ h \in DOMAIN socks
    /\ socks[h].live
    /\ Commit(hSet(St, socks[h].id, field, IF field = "creds" THEN JSONstringify(PairedCreds)
                                   ELSE JSONstringify(KeyItem)))
    /\ last' = Step
    /\ UNCHANGED <<calls, now, probe,
                   boot, snapshots, more>>

\* A pending reconnect timer fires, not before it is due.
TimerFire(tm, ok) ==
    /\ tm \in timers
    /\ now >= tm.due
    /\ LET st == reconnectTimer(St, tm, ok) IN
       /\ Len(st.socks) <= MaxSocks
       /\ Commit(st)
    /\ last' = Op(IF ok THEN "timer" ELSE "timerFailed", tm.id, FALSE, Nil, 0)
    /\ UNCHANGED <<calls, now, probe,
                   boot, snapshots, more>>

\* deleteSession(sessionId), called by the DELETE route or directly.
DeleteSession(id) ==
    /\ Commit(deleteSession(St, id))
    /\ last' = Op("deleteSession", id, sessions[id] # NoSession, Nil, 0)
    /\ UNCHANGED <<calls, now, probe,
                   boot, snapshots, more>>

Tick ==
    /\ now + TickMs <= MaxNow
    /\ now' = now + TickMs
    /\ last' = Step
    /\ UNCHANGED <<sessions, reconnectionAttempts, socks, calls, timers, redis, probe,
                   waiters,
                   boot, snapshots, more>>

NextWith(maxCalls) ==
    \/ \E id \in Ids : CreateStart(id, maxCalls)
    \/ \E id \in Ids : CreateExisting(id)
    \/ \E call \in BagToSet(calls) : CreateFinish(call)
    \/ \E h \in 1..MaxSocks : ConnectionOpen(h)
    \/ \E h \in 1..MaxSocks, jitter \in Jitters :
          \E branch \in {ReasonBranch(reason) : reason \in Reasons} :
              ConnectionClose(h, branch, jitter)
    \/ \E h \in 1..MaxSocks :
          \E branch \in {ReasonBranch(reason) : reason \in Reasons} :
              ReplacementClose(h, branch)
    \/ \E h \in 1..MaxSocks, field \in {"creds", "keys"} : StoreWrite(h, field)
    \/ \E tm \in timers, ok \in BOOLEAN : TimerFire(tm, ok)
    \/ \E id \in Ids : DeleteSession(id)
    \/ Tick

\* The lifecycle of sessions: at most MaxCalls createSession calls in flight.
Next == NextWith(MaxCalls)

Spec == Init /\ [][Next]_vars

\* The same program with one more createSession call in flight, so that two
\* calls for an id can race.
RaceCalls == MaxCalls + 1

NextRace == NextWith(RaceCalls)

SpecRace == Init /\ [][NextRace]_vars

\* The reconnects of sessions created one call at a time, with the clock
\* and the reconnect timers.
NextTimer ==
    \/ \E id \in Ids : CreateStart(id, 1)
    \/ \E call \in BagToSet(calls) : CreateFinish(call)
    \/ \E h \in 1..MaxSocks, jitter \in Jitters :
          \E branch \in {ReasonBranch(reason) : reason \in Reasons} :
              ConnectionClose(h, branch, jitter)
    \/ \E h \in 1..MaxSocks :
          \E branch \in {ReasonBranch(reason) : reason \in Reasons} :
              ReplacementClose(h, branch)
    \/ \E h \in 1..MaxSocks : StoreWrite(h, "creds")
    \/ \E tm \in timers, ok \in BOOLEAN : TimerFire(tm, ok)
    \/ \E id \in Ids : DeleteSession(id)
    \/ Tick

SpecTimer == Init /\ [][NextTimer]_vars

----------------------------------------------------------------------------
(* The QR bridge: getNewQr and the qr field of "connection.update" *)

RECURSIVE SumLen(_, _)
SumLen(ws, cs) ==
    IF cs = {} THEN 0
    ELSE LET c == CHOOSE x \in cs : TRUE
         IN  Len(ws[c].promises) + SumLen(ws, cs \ {c})

\* The promises getNewQr has returned so far, over all closures.
Promises == SumLen(waiters, DOMAIN waiters)

\* A caller that holds a session object of closure c (every session the
\* closure registers carries its getNewQr) calls getNewQr.
GetNewQr(c) ==
    /\ c \in DOMAIN waiters
    /\ Promises < MaxPromises
    /\ Commit(getNewQr(St, c))
    /\ last' = Op("getNewQr", socks[c].id, Registered(c), Nil, 0)
    /\ UNCHANGED <<calls, now, probe,
                   boot, snapshots, more>>

\* An open socket reports an update that carries only a qr.  The listener
\* runs if the socket is the one createSession attached it to.
QrUpdate(h, qr) ==
    /\ h \in DOMAIN socks
    /\ socks[h].live
    /\ Commit(IF socks[h].listens THEN onQr(St, h, qr) ELSE St)
    /\ last' = [Op("qr", socks[h].id, Registered(h), Nil, 0) EXCEPT !.out = qr]
    /\ UNCHANGED <<calls, now, probe,
                   boot, snapshots, more>>

\* The QR exchange of sessions created one call at a time, before any
\* reconnect timer is due.
NextQr ==
    \/ \E id \in Ids : CreateStart(id, 1)
    \/ \E call \in BagToSet(calls) : CreateFinish(call)
    \/ \E h \in 1..MaxSocks, jitter \in Jitters :
          \E branch \in {ReasonBranch(reason) : reason \in Reasons} :
              ConnectionClose(h, branch, jitter)
    \/ \E h \in 1..MaxSocks, field \in {"creds", "keys"} : StoreWrite(h, field)
    \/ \E id \in Ids : DeleteSession(id)
    \/ \E c \in 1..MaxSocks : GetNewQr(c)
    \/ \E h \in 1..MaxSocks, qr \in QrValues : QrUpdate(h, qr)

SpecQr == Init /\ [][NextQr]_vars

----------------------------------------------------------------------------
(* Startup: restoreSessionsFromRedis, then app.listen (server.js) *)

RestoreIds == {"a", "b"}

\* What a Redis hash of a session can hold when the process starts.
Hashes == [creds : {Nil, JSONstringify(PairedCreds)},
           keys : {Nil, JSONstringify(KeyItem)}]

\* The keys of Redis: the hash of every id that has a field, and the string
\* "<id>:store" of every id with a snapshot.
Keys(st, snaps) ==
    {[id |-> id, type |-> "hash"] : id \in {x \in DOMAIN st.redis : st.redis[x] # EmptyHash}}
    \cup {[id |-> id, type |-> "string"] : id \in snaps}

\* KEYS * replies with the keys in an order of Redis's choosing.
Orders(S) ==
    {o \in [1..Cardinality(S) -> S] : \A m, n \in DOMAIN o : o[m] = o[n] => m = n}

\* HEXISTS key creds: an error (WRONGTYPE) on a key that holds a string.
hExists(st, key) ==
    IF key.type # "hash" THEN "WRONGTYPE"
    ELSE IF st.redis[key.id].creds # Nil THEN "yes" ELSE "no"

\* One round of the filter loop (lines 56-61); an error leaves the function
\* through the outer catch (lines 77-79).
restoreFilter(b, st) ==
    IF b.i > Len(b.order) THEN [b EXCEPT !.pc = "restore"]
    ELSE LET key == b.order[b.i]
             hasCreds == hExists(st, key)
         IN  IF hasCreds = "WRONGTYPE"
             THEN [b EXCEPT !.pc = "done", !.aborted = TRUE]
             ELSE IF hasCreds = "yes"
             THEN [b EXCEPT !.sessionIds = Append(@, key.id), !.i = @ + 1]
             ELSE [b EXCEPT !.i = @ + 1]

restoreCatchGivesUp(b, id) ==
    [b EXCEPT !.failed = @ \cup {id}, !.pc = "done"]

\* The catch of the restore loop (lines 71-73): log, go on with the next id.
restoreCatch(b, id) ==
    [b EXCEPT !.failed = @ \cup {id}, !.j = @ + 1]

canListenAtLoad(b) == ~b.listening

\* server.js: app.listen is called after the await on
\* restoreSessionsFromRedis.
canListen(b) == b.pc = "done" /\ ~b.listening

\* The process starts against whatever an earlier run left in Redis.
InitRestore ==
    /\ sessions = [id \in RestoreIds |-> NoSession]
    /\ reconnectionAttempts = [id \in RestoreIds |-> NoInfo]
    /\ socks = <<>>
    /\ calls = EmptyBag
    /\ timers = {}
    /\ redis \in [RestoreIds -> Hashes]
    /\ now = 0
    /\ last = NoOp
    /\ probe = NoProbe
    /\ waiters = <<>>
    /\ boot = [Booted EXCEPT !.pc = "start", !.runs = 0, !.listening = FALSE]
    /\ snapshots \in SUBSET RestoreIds
    /\ InitMore

\* restoreSessionsFromRedis is called; KEYS * replies.
RestoreKeys ==
    /\ boot.pc = "start"
    /\ \E order \in Orders(Keys(St, snapshots)) :
          boot' = [boot EXCEPT !.pc = "filter", !.order = order, !.runs = @ + 1]
    /\ last' = Step
    /\ UNCHANGED <<sessions, reconnectionAttempts, socks, calls, timers, redis,
                   now, probe, waiters, snapshots, more>>

RestoreFilter ==
    /\ boot.pc = "filter"
    /\ boot' = restoreFilter(boot, St)
    /\ last' = Step
    /\ UNCHANGED <<sessions, reconnectionAttempts, socks, calls, timers, redis,
                   now, probe, waiters, snapshots, more>>

\* One round of the restore loop (lines 66-74): createSession(sessionId)
\* returns (ok) or throws.
RestoreOne(ok) ==
    /\ boot.pc = "restore"
    /\ IF boot.j > Len(boot.sessionIds)
       THEN /\ boot' = [boot EXCEPT !.pc = "done"]
            /\ UNCHANGED <<sessions, reconnectionAttempts, socks, timers, redis,
                           waiters>>
       ELSE LET id == boot.sessionIds[boot.j] IN
            IF ok
            THEN /\ Commit(publishSession(St, id))
                 /\ boot' = [boot EXCEPT !.j = @ + 1]
            ELSE /\ boot' = restoreCatch(boot, id)
                 /\ UNCHANGED <<sessions, reconnectionAttempts, socks, timers,
                                redis, waiters>>
    /\ last' = Step
    /\ UNCHANGED <<calls, now, probe, snapshots, more>>

Listen ==
    /\ canListen(boot)
    /\ boot' = [boot EXCEPT !.listening = TRUE]
    /\ last' = Step
    /\ UNCHANGED <<sessions, reconnectionAttempts, socks, calls, timers, redis,
                   now, probe, waiters, snapshots, more>>

\* Requests reach the routes once the server listens.
NextRestore ==
    \/ RestoreKeys
    \/ RestoreFilter
    \/ \E ok \in BOOLEAN : RestoreOne(ok)
    \/ Listen
    \/ boot.listening /\ \E id \in RestoreIds : CreateStart(id, 1)
    \/ \E call \in BagToSet(calls) : CreateFinish(call)
    \/ boot.listening /\ \E id \in RestoreIds : DeleteSession(id)

SpecRestore == InitRestore /\ [][NextRestore]_vars

----------------------------------------------------------------------------
(* Failures inside the handlers: a Redis command that is rejected, a socket *)
(* that cannot be opened or closed, a cache snapshot that cannot be read or *)
(* written                                                                  *)

\* What can go wrong in one run of the "connection.update" listener:
\* sock.end() of the old socket throws ("end"), makeWASocket throws ("open"),
\* redisClient.del is rejected ("del").
Faults == {"none", "end", "open", "del"}

\* What a run of an async handler leaves: the state, and whether the promise
\* it returned was rejected.  The emitter awaits no listener.
Ran(st, threw) == [st |-> st, threw |-> threw]

\* saveCreds: await redisClient.hSet(sessionId, 'creds', ...), with no catch.
saveCreds(st, sessionId, value, ok) ==
    IF ok THEN Ran(hSet(st, sessionId, "creds", value), FALSE)
    ELSE Ran(st, TRUE)

restartBranchEndEscapes(st, id, sock, fault) ==
    IF fault \in {"open", "end"} THEN Ran(st, TRUE)
    ELSE Ran(restartBranch(st, id, sock), FALSE)

\* The restartRequired branch when something fails: a throw of end() is
\* caught (lines 181-185) and the old socket stays as it was; a throw of
\* makeConfiggedWASocket (line 188) is not caught.
restartBranchFaulty(st, id, sock, fault) ==
    IF fault = "open" THEN Ran(cleanupOldSocket(st, id, sock), TRUE)
    ELSE IF fault = "end"
    THEN Ran([restartBranch(st, id, sock) EXCEPT
                  !.socks = makeConfiggedWASocket(st, id).socks], FALSE)
    ELSE Ran(restartBranch(st, id, sock), FALSE)

\* deleteSession when something fails: a throw of end() is caught (lines
\* 274-278); a rejection of redisClient.del (line 283) comes after the two
\* Maps were cleared and is not caught.
deleteSessionFaulty(st, sessionId, fault) ==
    IF fault = "del"
    THEN Ran([deleteSession(st, sessionId) EXCEPT !.redis = st.redis], TRUE)
    ELSE IF fault = "end"
    THEN Ran([deleteSession(st, sessionId) EXCEPT !.socks = st.socks], FALSE)
    ELSE Ran(deleteSession(st, sessionId), FALSE)

\* The transient branch awaits nothing; a throw of end() is caught (lines
\* 208-212).
transientBranchFaulty(st, id, sock, t, jitter, fault) ==
    IF fault = "end"
    THEN Ran([transientBranch(st, id, sock, t, jitter) EXCEPT !.socks = st.socks],
             FALSE)
    ELSE Ran(transientBranch(st, id, sock, t, jitter), FALSE)

\* The listener for connection "close" (lines 170-243) with a fault.
onConnectionCloseFaulty(st, sock, branch, t, jitter, fault) ==
    LET id == st.socks[sock].id
    IN  IF branch = "restartRequired" THEN restartBranchFaulty(st, id, sock, fault)
        ELSE IF branch = "transient"
        THEN transientBranchFaulty(st, id, sock, t, jitter, fault)
        ELSE deleteSessionFaulty(st, id, fault)

\* The rejections nobody handles, after a listener has run.
reject(u, listener, r) == IF r.threw THEN u \cup {listener} ELSE u

makeRedisStoreRethrows(iv, c, loadOk) ==
    [ok |-> loadOk, intervals |-> IF loadOk THEN iv \cup {c} ELSE iv]

\* makeRedisStore for the closure c: the load (lines 122-129) is inside a
\* try whose catch logs; setInterval (line 140) and the return follow in
\* either case.
makeRedisStore(iv, c, loadOk) == [ok |-> TRUE, intervals |-> iv \cup {c}]

\* saveToRedis (lines 131-137): SET "<id>:store", inside a try whose catch
\* logs.
saveToRedis(snaps, id, ok) == IF ok THEN snaps \cup {id} ELSE snaps

\* The tail of createSession, with the outcome of the snapshot load.
CreateFinishLoad(call, loadOk) ==
    /\ BagIn(call, calls)
    /\ Len(socks) < MaxSocks
    /\ LET store == makeRedisStore(intervals, Len(socks) + 1, loadOk) IN
       /\ Commit(IF store.ok THEN publishSession(St, call.id) ELSE St)
       /\ intervals' = store.intervals
    /\ calls' = calls (-) Call(call.id, call.rival)
    /\ last' = Op("createFinish", call.id, TRUE,
                  IF loadOk THEN "loaded" ELSE "loadFailed", 0)
    /\ UNCHANGED <<now, probe, boot, snapshots, unhandled, pipe, auth, users>>

\* A socket that carries the listener reports connection "close" and the
\* listener runs with a fault; out is the fault.
ConnectionCloseFault(h, branch, jitter, fault) ==
    /\ h \in DOMAIN socks
    /\ socks[h].listens
    /\ LET r == onConnectionCloseFaulty(end(St, h), h, branch, now, jitter, fault) IN
       /\ Len(r.st.socks) <= MaxSocks
       /\ Cardinality(r.st.timers) <= MaxTimers
       /\ Commit(r.st)
       /\ unhandled' = reject(unhandled, "connection.update", r)
    /\ last' = [Op("close", socks[h].id, Registered(h), branch, 0) EXCEPT !.out = fault]
    /\ UNCHANGED <<calls, now, probe, boot, snapshots, intervals, pipe, auth, users>>

\* An open socket emits "creds.update": saveCreds runs, and the hSet is
\* answered or rejected.
SaveCreds(h, ok) ==
    /\ h \in DOMAIN socks
    /\ socks[h].live
    /\ LET r == saveCreds(St, socks[h].id, JSONstringify(PairedCreds), ok) IN
       /\ Commit(r.st)
       /\ unhandled' = reject(unhandled, "creds.update", r)
    /\ last' = Op("saveCreds", socks[h].id, Registered(h),
                  IF ok THEN "saved" ELSE "saveFailed", 0)
    /\ UNCHANGED <<calls, now, probe, boot, snapshots, intervals, pipe, auth, users>>

\* The interval of the store of closure c fires.
SnapshotTick(c, ok) ==
    /\ c \in intervals
    /\ snapshots' = saveToRedis(snapshots, socks[c].id, ok)
    /\ last' = Op("snapshotTick", socks[c].id, Registered(c),
                  IF ok THEN "saved" ELSE "saveFailed", 0)
    /\ UNCHANGED <<sessions, reconnectionAttempts, socks, calls, timers, redis,
                   now, probe, waiters, boot, unhandled, intervals, pipe, auth,
                   users>>

\* The handlers with their faults, for sessions created one call at a time,
\* before any reconnect timer is due (the timer's callback catches what it
\* throws, lines 226-234).
NextFail ==
    \/ \E id \in Ids : CreateStart(id, 1)
    \/ \E call \in BagToSet(calls), loadOk \in BOOLEAN : CreateFinishLoad(call, loadOk)
    \/ \E h \in 1..MaxSocks, jitter \in Jitters, fault \in Faults :
          \E branch \in {ReasonBranch(reason) : reason \in Reasons} :
              ConnectionCloseFault(h, branch, jitter, fault)
    \/ \E h \in 1..MaxSocks, ok \in BOOLEAN : SaveCreds(h, ok)
    \/ \E c \in 1..MaxSocks, ok \in BOOLEAN : SnapshotTick(c, ok)
    \/ \E id \in Ids : DeleteSession(id)

SpecFail == Init /\ [][NextFail]_vars

\* A socket that carries the listener reports connection "close" and
\* sock.end() of the registered socket, where the listener calls it, returns
\* or throws; out is that outcome and the socket that reported.  One socket
\* more than elsewhere is followed: the one that reports, the registered one
\* and the replacement.
CleanupClose(h, branch, jitter, fault) ==
    /\ h \in DOMAIN socks
    /\ socks[h].listens
    /\ LET r == onConnectionCloseFaulty(end(St, h), h, branch, now, jitter, fault) IN
       /\ Len(r.st.socks) <= MaxSocks + 1
       /\ Cardinality(r.st.timers) <= MaxTimers
       /\ Commit(r.st)
       /\ unhandled' = reject(unhandled, "connection.update", r)
    /\ last' = [Op("close", socks[h].id, Registered(h), branch, 0) EXCEPT
                   !.out = [fault |-> fault, sock |-> h]]
    /\ UNCHANGED <<calls, now, probe, boot, snapshots, intervals, pipe, auth, users>>

\* deleteSession(sessionId), called directly, with sock.end() returning or
\* throwing.
DeleteSessionFault(id, fault) ==
    /\ LET r == deleteSessionFaulty(St, id, fault) IN
       /\ Commit(r.st)
       /\ unhandled' = reject(unhandled, "deleteSession", r)
    /\ last' = [Op("deleteSession", id, sessions[id] # NoSession, Nil, 0) EXCEPT
                   !.out = [fault |-> fault, sock |-> sessions[id].sock]]
    /\ UNCHANGED <<calls, now, probe, boot, snapshots, intervals, pipe, auth, users>>

\* The closes and deletions of sessions created one call at a time, with
\* the close of the old socket failing or not.
NextCleanup ==
    \/ \E id \in Ids : CreateStart(id, 1)
    \/ \E call \in BagToSet(calls) : CreateFinish(call)
    \/ \E h \in 1..MaxSocks : StoreWrite(h, "creds")
    \/ \E h \in 1..MaxSocks, jitter \in Jitters, fault \in {"none", "end"} :
          \E branch \in {ReasonBranch(reason) : reason \in Reasons} :
              CleanupClose(h, branch, jitter, fault)
    \/ \E id \in Ids, fault \in {"none", "end"} : DeleteSessionFault(id, fault)

SpecCleanup == Init /\ [][NextCleanup]_vars

----------------------------------------------------------------------------
(* The Redis connection: saveCreds issues HSET commands, Redis executes the *)
(* commands of a client in the order it issued them                         *)

StoreIds == {"a", "b"}

credsCommandStale(sessionId, c) ==
    [op |-> "hSet", key |-> sessionId, field |-> "creds",
     value |-> JSONstringify(InitAuthCreds)]

\* saveCreds: redisClient.hSet(sessionId, 'creds', JSON.stringify(creds)),
\* the text being made when the command is issued.
credsCommand(sessionId, c) ==
    [op |-> "hSet", key |-> sessionId, field |-> "creds",
     value |-> JSONstringify(c)]

\* Redis executes a command.
exec(st, cmd) == hSet(st, cmd.key, cmd.field, cmd.value)

\* The commands in flight that write the hash of an id.
InFlight(id) == {n \in DOMAIN pipe : pipe[n].key = id}

\* Redis holds what an earlier run left; useRedisAuthState has returned an
\* auth state for every id.
InitSave ==
    /\ sessions = [id \in StoreIds |-> NoSession]
    /\ reconnectionAttempts = [id \in StoreIds |-> NoInfo]
    /\ socks = <<>>
    /\ calls = EmptyBag
    /\ timers = {}
    /\ redis \in [StoreIds -> {EmptyHash,
                               [EmptyHash EXCEPT !.creds = JSONstringify(PairedCreds)]}]
    /\ now = 0
    /\ last = NoOp
    /\ probe = NoProbe
    /\ waiters = <<>>
    /\ boot = Booted
    /\ snapshots = {}
    /\ unhandled = {}
    /\ intervals = {}
    /\ pipe = <<>>
    /\ auth = [id \in StoreIds |->
                  [creds |-> useRedisAuthState(St, id), emitted |-> FALSE]]
    /\ users = {}

\* A socket of the session emits "creds.update", after the library has
\* merged the update into the creds object (changed) or with the object as
\* it was; saveCreds issues its HSET.
CredsUpdate(id, changed) ==
    /\ Len(pipe) < MaxPipe
    /\ changed => auth[id].creds.data < MaxVersion
    /\ LET c == IF changed THEN [auth[id].creds EXCEPT !.data = @ + 1]
                ELSE auth[id].creds
       IN  /\ auth' = [auth EXCEPT ![id] = [creds |-> c, emitted |-> TRUE]]
           /\ pipe' = Append(pipe, credsCommand(id, c))
    /\ last' = Op("credsUpdate", id, FALSE, Nil, 0)
    /\ UNCHANGED <<sessions, reconnectionAttempts, socks, calls, timers, redis,
                   now, probe, waiters, boot, snapshots, unhandled, intervals,
                   users>>

\* Redis executes the oldest command in flight.
RedisExec ==
    /\ pipe # <<>>
    /\ Commit(exec(St, Head(pipe)))
    /\ pipe' = Tail(pipe)
    /\ last' = Op("exec", Head(pipe).key, FALSE, Nil, 0)
    /\ UNCHANGED <<calls, now, probe, boot, snapshots, unhandled, intervals, auth,
                   users>>

NextSave ==
    \/ \E id \in StoreIds, changed \in BOOLEAN : CredsUpdate(id, changed)
    \/ RedisExec

SpecSave == InitSave /\ [][NextSave]_vars

----------------------------------------------------------------------------
(* The auth state of use_redis_auth_state.js as functions of the hash: the  *)
(* credential load, state.keys.get and state.keys.set.  Here the hash of an *)
(* id is kept field by field, and each call is answered before the next.    *)

\* Key types of the signal store, and ids of keys.
Types == {"session", "app-state-sync-key"}

KeyIds == {"1", "2"}

\* `${type}-${id}`
redisKey(type, id) == type \o "-" \o id

Fields == {"creds"} \cup {redisKey(type, id) : type \in Types, id \in KeyIds}

\* The keys that batches write; the remaining one is only read.
KeyPairs == {<<"session", "1">>, <<"session", "2">>, <<"app-state-sync-key", "1">>}

\* The item a batch writes under a key: one per key.
ItemOf(type, id) ==
    Value(IF id = "1" THEN 1 ELSE 2, IF type = "session" THEN "Buffer" ELSE "none",
          FALSE)

\* proto.Message.AppStateSyncKeyData.fromObject(value)
fromObject(value) == [value EXCEPT !.proto = TRUE]

\* The hashes a run can have left under an id.
KeyHashes ==
    {h \in [Fields -> {Nil} \cup {JSONstringify(PairedCreds)}
                      \cup {JSONstringify(ItemOf(p[1], p[2])) : p \in KeyPairs}] :
        /\ h["creds"] \in {Nil, JSONstringify(PairedCreds)}
        /\ \A type \in Types, id \in KeyIds :
              h[redisKey(type, id)] \in
                  {Nil} \cup (IF <<type, id>> \in KeyPairs
                              THEN {JSONstringify(ItemOf(type, id))} ELSE {})}

\* hDel(sessionId, field)
hDel(st, sessionId, field) == [st EXCEPT !.redis[sessionId][field] = Nil]

Range(seq) == {seq[n] : n \in DOMAIN seq}

keysGetSkipsAbsent(st, sessionId, type, ids) ==
    [id \in {x \in Range(ids) : st.redis[sessionId][redisKey(type, x)] # Nil} |->
        JSONparse(st.redis[sessionId][redisKey(type, id)])]

\* state.keys.get(type, ids): data[id] for every id, from one hGet each.
keysGet(st, sessionId, type, ids) ==
    [id \in Range(ids) |->
        LET valueStr == st.redis[sessionId][redisKey(type, id)] IN
        IF valueStr # Nil
        THEN IF type = "app-state-sync-key" THEN fromObject(JSONparse(valueStr))
             ELSE JSONparse(valueStr)
        ELSE Null]

\* The (category, id) pairs of a batch: data[category][id].
Entries(data) ==
    {e \in Types \X KeyIds : e[1] \in DOMAIN data /\ e[2] \in DOMAIN data[e[1]]}

\* The two loops of state.keys.set, queueing hSet or hDel on the pipeline.
RECURSIVE setEach(_, _, _, _, _)
setEach(st, sessionId, data, todo, keepNull) ==
    IF todo = {} THEN st
    ELSE LET e == CHOOSE x \in todo : TRUE
             item == data[e[1]][e[2]]
             key == redisKey(e[1], e[2])
             s1 == IF item # Null THEN hSet(st, sessionId, key, JSONstringify(item))
                   ELSE IF keepNull THEN st
                   ELSE hDel(st, sessionId, key)
         IN  setEach(s1, sessionId, data, todo \ {e}, keepNull)

keysSetKeepsNull(st, sessionId, data) ==
    setEach(st, sessionId, data, Entries(data), TRUE)

\* state.keys.set(data): the pipeline is executed as one MULTI/EXEC.
keysSet(st, sessionId, data) ==
    setEach(st, sessionId, data, Entries(data), FALSE)

\* The batches given to keys.set: every key of KeyPairs is absent from the
\* batch, written with its item, or written with null; at most MaxBatch keys
\* are named.
BatchData(f) ==
    LET named == {p \in KeyPairs : f[p] # "absent"} IN
    [category \in {p[1] : p \in named} |->
        [id \in {p[2] : p \in {q \in named : q[1] = category}} |->
            IF f[<<category, id>>] = "item" THEN ItemOf(category, id) ELSE Null]]

Batches ==
    {BatchData(f) : f \in {g \in [KeyPairs -> {"absent", "item", "null"}] :
        Cardinality({p \in KeyPairs : g[p] # "absent"}) <= MaxBatch}}

\* The id lists given to keys.get.
IdLists == {<<"1">>, <<"1", "2">>, <<"2", "1">>}

\* What a call of the auth state is observed as: out is what it was given
\* and what it returned.
Done(op, id, out) ==
    [op |-> op, id |-> id, cur |-> FALSE, reason |-> Nil, rival |-> 0,
     had |-> FALSE, out |-> out]

InitKeys ==
    /\ sessions = [id \in StoreIds |-> NoSession]
    /\ reconnectionAttempts = [id \in StoreIds |-> NoInfo]
    /\ socks = <<>>
    /\ calls = EmptyBag
    /\ timers = {}
    /\ redis \in [StoreIds -> KeyHashes]
    /\ now = 0
    /\ last = NoOp
    /\ probe = NoProbe
    /\ waiters = <<>>
    /\ boot = Booted
    /\ snapshots = {}
    /\ InitMore

\* useRedisAuthState(sessionId) up to the creds it returns: one hGet.
Load(id) ==
    /\ Commit(St)
    /\ last' = Done("load", id, useRedisAuthState(St, id))
    /\ UNCHANGED <<calls, now, probe, boot, snapshots, more>>

KeysGet(id, type, ids) ==
    /\ Commit(St)
    /\ last' = Done("keysGet", id,
                    [type |-> type, ids |-> ids, data |-> keysGet(St, id, type, ids)])
    /\ UNCHANGED <<calls, now, probe, boot, snapshots, more>>

KeysSet(id, data) ==
    /\ Commit(keysSet(St, id, data))
    /\ last' = Done("keysSet", id, data)
    /\ UNCHANGED <<calls, now, probe, boot, snapshots, more>>

NextKeys ==
    \/ \E id \in StoreIds : Load(id)
    \/ \E id \in StoreIds, type \in Types, ids \in IdLists : KeysGet(id, type, ids)
    \/ \E id \in StoreIds, data \in Batches : KeysSet(id, data)

SpecKeys == InitKeys /\ [][NextKeys]_vars

----------------------------------------------------------------------------
(* The HTTP routes of server.js behind the middlewares of middlewares.js *)

RequestIds == {"a", "b"}

\* process.env.API_KEY || "your-secure-api-key"
ApiKey == "your-secure-api-key"

\* The x-api-key header of a request: absent (Nil), empty, right or wrong.
ApiKeys == {Nil, "", ApiKey, "wrong"}

\* "root" GET /, "list" GET /sessions, "create" POST /sessions/:sessionId,
\* "info" GET /sessions/:sessionId, "delete" DELETE /sessions/:sessionId,
\* "chats" GET /sessions/:sessionId/chats (and the routes below it, which
\* read the store or the socket of the session).
Routes == {"root", "list", "create", "info", "delete", "chats"}

\* The routes on a session that exists: those with :sessionId in their path,
\* but for the one that creates the session.
SessionScoped == {"info", "delete", "chats"}

\* The routes registered with requireSession before their handler.
Guarded == {"info", "delete", "chats"}

Response(status, body) == [status |-> status, body |-> body]

\* No response has been sent (the handler has not run, or still awaits).
NoResponse == Response(0, Nil)

apiKeyAuthAllowsMissing(apiKey, key) == key = Nil \/ key = apiKey

\* apiKeyAuth: TRUE when next() is called; if (!key || key !== apiKey) 401
apiKeyAuth(apiKey, key) == ~(key = Nil \/ key = "" \/ key # apiKey)

requireSessionAlways(st, sessionId) == TRUE

\* requireSession: TRUE when next() is called, with req.session set to
\* sessions.get(sessionId); if (!sessions.has(sessionId)) 404
requireSession(st, sessionId) == st.sessions[sessionId] # NoSession

isLoggedInAnySock(st, us, sessionId) ==
    \E h \in us : st.socks[h].id = sessionId

\* !!sock.user of the socket of sessions.get(sessionId)
isLoggedIn(st, us, sessionId) == st.sessions[sessionId].sock \in us

\* GET /sessions: getActiveSessions().map(...), in the order of the Map.
listSessions(st, us) ==
    LET active == {id \in DOMAIN st.sessions : st.sessions[id] # NoSession}
        order == CHOOSE o \in Orders(active) : TRUE
    IN  [n \in 1..Cardinality(active) |->
            [id |-> order[n], isLoggedIn |-> isLoggedIn(st, us, order[n])]]

\* What a request has led to: the state, the response, the route handler
\* that ran ("none" when a middleware answered) and req.session.
Handled(st, res, ran, session) ==
    [st |-> st, res |-> res, ran |-> ran, session |-> session]

handlerDeletesFirst(st, us, route, sessionId, session, ok) ==
    IF route = "root" THEN Handled(st, Response(200, "SERVER RUNNING"), route, session)
    ELSE IF route = "list"
    THEN Handled(st, Response(200, listSessions(st, us)), route, session)
    ELSE IF route = "info"
    THEN Handled(st, Response(200, [id |-> sessionId,
                                    isLoggedIn |-> session.sock \in us]),
                 route, session)
    ELSE IF route = "delete"
    THEN IF ok
         THEN Handled(deleteSession(st, sessionId), Response(200, "logged_out"),
                      route, session)
         ELSE Handled(deleteSession(st, sessionId), Response(500, "logout failed"),
                      route, session)
    ELSE Handled(st, Response(200, "chats"), route, session)

\* The handlers of the routes other than "create"; ok is whether sock.logout()
\* returned in DELETE.
handler(st, us, route, sessionId, session, ok) ==
    IF route = "root" THEN Handled(st, Response(200, "SERVER RUNNING"), route, session)
    ELSE IF route = "list"
    THEN Handled(st, Response(200, listSessions(st, us)), route, session)
    ELSE IF route = "info"
    THEN Handled(st, Response(200, [id |-> sessionId,
                                    isLoggedIn |-> session.sock \in us]),
                 route, session)
    ELSE IF route = "delete"
    THEN IF ok
         THEN Handled(deleteSession(st, sessionId), Response(200, "logged_out"),
                      route, session)
         ELSE Handled(st, Response(500, "logout failed"), route, session)
    ELSE Handled(st, Response(200, "chats"), route, session)

\* The middleware chain of a request: app.use(apiKeyAuth(API_KEY)), then the
\* route with requireSession where it is registered with it.
app(st, us, route, key, sessionId, ok) ==
    IF ~apiKeyAuth(ApiKey, key)
    THEN Handled(st, Response(401, "Api key not found or invalid"), "none", NoSession)
    ELSE IF route \in Guarded /\ ~requireSession(st, sessionId)
    THEN Handled(st, Response(404, "Session not found"), "none", NoSession)
    ELSE handler(st, us, route, sessionId, st.sessions[sessionId], ok)

\* The closure whose getNewQr the registered session of an id carries: the
\* createSession call that opened the session's socket or, when that socket
\* is a replacement, the call whose listener installed it.
closureOf(st, id) ==
    LET sock == st.sessions[id].sock
        mine == {c \in DOMAIN st.waiters : st.socks[c].id = id /\ c <= sock}
    IN  CHOOSE c \in mine : \A d \in mine : d <= c

\* POST /sessions/:sessionId from the return of createSession on: the health
\* check, then the answer or getNewQr of the registered session.
post(st, us, sessionId, probeOk) ==
    LET sock == st.sessions[sessionId].sock
        isHealthy == sock \in us /\ probeOk
    IN  IF isHealthy
        THEN Handled(st, Response(200, "already_logged_in"), "create",
                     st.sessions[sessionId])
        ELSE Handled(getNewQr(st, closureOf(st, sessionId)), NoResponse, "create",
                     st.sessions[sessionId])

\* What a request is observed as.
Seen(route, key, sessionId, r) ==
    Done("request", sessionId,
         [route |-> route, key |-> key, res |-> r.res, ran |-> r.ran,
          session |-> r.session])

InitHttp ==
    /\ sessions = [id \in RequestIds |-> NoSession]
    /\ reconnectionAttempts = [id \in RequestIds |-> NoInfo]
    /\ socks = <<>>
    /\ calls = EmptyBag
    /\ timers = {}
    /\ redis = [id \in RequestIds |-> EmptyHash]
    /\ now = 0
    /\ last = NoOp
    /\ probe = NoProbe
    /\ waiters = <<>>
    /\ boot = Booted
    /\ snapshots = {}
    /\ InitMore

\* A request that a middleware answers, or one for a route other than
\* "create".
Request(route, key, sessionId, ok) ==
    /\ route = "create" => ~apiKeyAuth(ApiKey, key)
    /\ LET r == app(St, users, route, key, sessionId, ok) IN
       /\ Commit(r.st)
       /\ last' = Seen(route, key, sessionId, r)
    /\ UNCHANGED <<calls, now, probe, boot, snapshots, unhandled, intervals, pipe,
                   auth, users>>

\* POST /sessions/:sessionId with the right key for an id that is not
\* registered: createSession suspends on its loads.
PostCreate(sessionId) ==
    /\ sessions[sessionId] = NoSession
    /\ BagCardinality(calls) < 1
    /\ calls' = calls (+) Call(sessionId, 0)
    /\ last' = Step
    /\ UNCHANGED <<sessions, reconnectionAttempts, socks, timers, redis, now, probe,
                   waiters, boot, snapshots, more>>

\* createSession returns to the route, which goes on in the same task.
PostResume(call, probeOk) ==
    /\ BagIn(call, calls)
    /\ Len(socks) < MaxSocks
    /\ Promises < MaxPromises
    /\ LET r == post(publishSession(St, call.id), users, call.id, probeOk) IN
       /\ Commit(r.st)
       /\ last' = [Seen("create", ApiKey, call.id, r) EXCEPT !.reason =
                      IF probeOk THEN "probeOk" ELSE "probeFailed"]
    /\ calls' = calls (-) Call(call.id, call.rival)
    /\ UNCHANGED <<now, probe, boot, snapshots, more>>

\* POST /sessions/:sessionId with the right key for a registered id.
PostExisting(sessionId, probeOk) ==
    /\ sessions[sessionId] # NoSession
    /\ Promises < MaxPromises
    /\ LET r == post(St, users, sessionId, probeOk) IN
       /\ Commit(r.st)
       /\ last' = [Seen("create", ApiKey, sessionId, r) EXCEPT !.reason =
                      IF probeOk THEN "probeOk" ELSE "probeFailed"]
    /\ UNCHANGED <<calls, now, probe, boot, snapshots, more>>

\* The library sets the user of an open socket (the device is paired).
Identify(h) ==
    /\ h \in DOMAIN socks
    /\ socks[h].live
    /\ users' = users \cup {h}
    /\ last' = Step
    /\ UNCHANGED <<sessions, reconnectionAttempts, socks, calls, timers, redis,
                   now, probe, waiters, boot, snapshots, unhandled, intervals,
                   pipe, auth>>

\* Requests of every route but the creating one against sessions that
\* createSession has made, some of them restarted and some paired.
NextHttp ==
    \/ \E route \in Routes, key \in ApiKeys, sessionId \in RequestIds, ok \in BOOLEAN :
          (route # "delete" => ok) /\ Request(route, key, sessionId, ok)
    \/ \E sessionId \in RequestIds : CreateStart(sessionId, 1)
    \/ \E call \in BagToSet(calls) : CreateFinish(call)
    \/ \E h \in 1..MaxSocks : Identify(h)
    \/ \E h \in 1..MaxSocks, jitter \in Jitters :
          /\ h \in DOMAIN socks
          /\ Registered(h)
          /\ ConnectionClose(h, "restartRequired", jitter)

SpecHttp == InitHttp /\ [][NextHttp]_vars

\* POST /sessions/:sessionId with the right key, against sessions whose
\* events come from the socket that is registered for them, before any
\* reconnect timer is due.
NextPost ==
    \/ \E sessionId \in RequestIds : PostCreate(sessionId)
    \/ \E call \in BagToSet(calls), probeOk \in BOOLEAN : PostResume(call, probeOk)
    \/ \E sessionId \in RequestIds, probeOk \in BOOLEAN : PostExisting(sessionId, probeOk)
    \/ \E h \in 1..MaxSocks : Identify(h)
    \/ \E h \in 1..MaxSocks, jitter \in Jitters :
          \E branch \in {ReasonBranch(reason) : reason \in Reasons} :
              /\ h \in DOMAIN socks
              /\ Registered(h)
              /\ ConnectionClose(h, branch, jitter)
    \/ \E h \in 1..MaxSocks, qr \in QrValues : QrUpdate(h, qr)

SpecPost == InitHttp /\ [][NextPost]_vars

\* DELETE /sessions/:sessionId with the right key; ok is whether
\* sock.logout() returned, which the observation keeps as its reason.
DeleteRequest(sessionId, ok) ==
    /\ LET r == app(St, users, "delete", ApiKey, sessionId, ok) IN
       /\ Commit(r.st)
       /\ last' = [Seen("delete", ApiKey, sessionId, r) EXCEPT !.reason =
                      IF ok THEN "loggedOut" ELSE "logoutFailed"]
    /\ UNCHANGED <<calls, now, probe, boot, snapshots, more>>

\* The ways a session is deleted: the DELETE route, the listener on the
\* loggedOut close that a logout makes the socket report, and direct calls
\* of deleteSession (such as the one the route makes after the listener has
\* made its own).
NextDelete ==
    \/ \E sessionId \in RequestIds : CreateStart(sessionId, 1)
    \/ \E call \in BagToSet(calls) : CreateFinish(call)
    \/ \E h \in 1..MaxSocks : StoreWrite(h, "creds")
    \/ \E h \in 1..MaxSocks, jitter \in Jitters :
          \E branch \in {"loggedOut", "transient", "restartRequired"} :
              ConnectionClose(h, branch, jitter)
    \/ \E sessionId \in RequestIds, ok \in BOOLEAN : DeleteRequest(sessionId, ok)
    \/ \E sessionId \in RequestIds : DeleteSession(sessionId)

SpecDelete == InitHttp /\ [][NextDelete]_vars

----------------------------------------------------------------------------
(* calculateBackoff as a function of its argument and of Math.random() *)

InitBackoff ==
    /\ sessions = [id \in Ids |-> NoSession]
    /\ reconnectionAttempts = [id \in Ids |-> NoInfo]
    /\ socks = <<>>
    /\ calls = EmptyBag
    /\ timers = {}
    /\ redis = [id \in Ids |-> EmptyHash]
    /\ now = 0
    /\ last = NoOp
    /\ waiters = <<>>
    /\ boot = Booted
    /\ snapshots = {}
    /\ InitMore
    /\ probe \in [attempts : 0..MaxProbeAttempts, j1 : JitterSamples,
                  j2 : JitterSamples, lo : {0}, hi : {0}, done : {FALSE}]

\* calculateBackoff(attempts) and calculateBackoff(attempts + 1), each with
\* its own draw of Math.random().
ComputeBackoff ==
    /\ ~probe.done
    /\ probe' = [probe EXCEPT !.lo = calculateBackoff(probe.attempts, probe.j1),
                              !.hi = calculateBackoff(probe.attempts + 1, probe.j2),
                              !.done = TRUE]
    /\ UNCHANGED <<sessions, reconnectionAttempts, socks, calls, timers, redis,
                   now, last, waiters,
                   boot, snapshots, more>>

NextBackoff == ComputeBackoff

SpecBackoff == InitBackoff /\ [][NextBackoff]_vars

----------------------------------------------------------------------------
(* helpers.js: normalizeJid *)

\* An argument of normalizeJid: a string, which is the sequence of its
\* characters (':' and '@' are told apart, "1" is any other character), or a
\* value of another type.
Jids == {[type |-> "string", text |-> s] :
            s \in UNION {[1..n -> {"1", ":", "@"}] : n \in 0..MaxJidLen}}
        \cup {[type |-> t, text |-> <<>>] : t \in {"number", "undefined"}}

\* Where /:[^@]+@/ can match in s: a ':' followed by one character or more
\* that are not '@', followed by '@'.
Matches(s) ==
    {i \in 1..Len(s) :
        /\ s[i] = ":"
        /\ \E j \in (i + 2)..Len(s) :
              s[j] = "@" /\ \A k \in (i + 1)..(j - 1) : s[k] # "@"}

Least(S) == CHOOSE i \in S : \A j \in S : i <= j

\* s.replace(/:[^@]+@/, '@'): the leftmost match, once (the pattern has no
\* g flag), replaced by '@'.
replace(s, i) ==
    LET j == Least({k \in (i + 1)..Len(s) : s[k] = "@"})
    IN  SubSeq(s, 1, i - 1) \o SubSeq(s, j, Len(s))

normalizeJidLastColon(jid) ==
    IF jid.type = "string" /\ Matches(jid.text) # {}
    THEN [jid EXCEPT !.text = replace(jid.text, CHOOSE i \in Matches(jid.text) :
                                               \A j \in Matches(jid.text) : j <= i)]
    ELSE jid

\* typeof jid === 'string' ? jid.replace(/:[^@]+@/, '@') : jid
normalizeJid(jid) ==
    IF jid.type = "string" /\ Matches(jid.text) # {}
    THEN [jid EXCEPT !.text = replace(jid.text, Least(Matches(jid.text)))]
    ELSE jid

InitJid ==
    /\ sessions = [id \in Ids |-> NoSession]
    /\ reconnectionAttempts = [id \in Ids |-> NoInfo]
    /\ socks = <<>>
    /\ calls = EmptyBag
    /\ timers = {}
    /\ redis = [id \in Ids |-> EmptyHash]
    /\ now = 0
    /\ last = NoOp
    /\ waiters = <<>>
    /\ boot = Booted
    /\ snapshots = {}
    /\ InitMore
    /\ \E jid \in Jids :
          probe = [jid |-> jid, once |-> jid, twice |-> jid, done |-> FALSE]

\* normalizeJid(jid) and normalizeJid(normalizeJid(jid))
Normalize ==
    /\ ~probe.done
    /\ probe' = [probe EXCEPT !.once = normalizeJid(probe.jid),
                              !.twice = normalizeJid(normalizeJid(probe.jid)),
                              !.done = TRUE]
    /\ UNCHANGED <<sessions, reconnectionAttempts, socks, calls, timers, redis,
                   now, last, waiters, boot, snapshots, more>>

SpecJid == InitJid /\ [][Normalize]_vars

----------------------------------------------------------------------------
(* Properties *)

\* The sockets opened for an id that are still open.
LiveSocks(id) == {h \in DOMAIN socks : socks[h].id = id /\ socks[h].live}

\* C1: when a createSession(id) call returns after a call it raced with has
\* returned, the session it returns is the session the racing call returned,
\* and no second socket has been opened for it.
C1_RacingCallsShareSession ==
    (last.op = "createFinish" /\ last.rival # 0) =>
        /\ sessions[last.id].sock = last.rival
        /\ Len(socks) = last.rival

\* C2: for every session id, at most one socket opened for the id is open at
\* any instant.
C2_AtMostOneLiveSocket ==
    \A id \in Ids : Cardinality(LiveSocks(id)) <= 1

\* C3: when deleteSession(id) has run while a reconnect was scheduled for id
\* and no createSession call is in flight, the reconnect timer firing next
\* opens no socket and leaves the registry unchanged.
C3_StaleTimerIsNoOp ==
    [][(/\ last.op = "deleteSession"
        /\ calls = EmptyBag
        /\ last'.op \in {"timer", "timerFailed"}
        /\ last'.id = last.id)
       => (sessions' = sessions /\ socks' = socks)]_vars

\* C4: after deleteSession(id), id is not registered and is not listed, the
\* store holds neither a credential blob nor a keyed field for id, and a
\* credential load for id returns the freshly initialised credentials.
C4_DeleteRemovesSessionAndCreds ==
    (last.op = "deleteSession") =>
        /\ sessions[last.id] = NoSession
        /\ last.id \notin getActiveSessions
        /\ redis[last.id] = EmptyHash
        /\ useRedisAuthState(St, last.id) = InitAuthCreds

\* deleteSession has run for a registered id whose hash held a credential
\* blob and a keyed field.
C4_Witness ==
    /\ last.op = "deleteSession"
    /\ last.cur
    /\ last.had
    /\ sessions[last.id] = NoSession
    /\ redis[last.id] = EmptyHash

\* C5: when the socket registered for a session reports close with reason
\* loggedOut, handling the event removes the session from the registry,
\* deletes its hash from the store, opens no socket and schedules no timer.
C5_LoggedOutDeletes ==
    [][(last'.op = "close" /\ last'.reason = "loggedOut" /\ last'.cur) =>
        /\ sessions'[last'.id] = NoSession
        /\ redis'[last'.id] = EmptyHash
        /\ reconnectionAttempts'[last'.id] = NoInfo
        /\ Len(socks') = Len(socks)
        /\ timers' \subseteq timers]_vars

\* C6: a transient close that arrives less than backoffMs after the last
\* counted attempt schedules nothing and leaves attempts, lastAttempt and
\* backoffMs as they were.
C6_WithinWindowSkipped ==
    [][\A id \in Ids :
        (/\ last'.op = "close" /\ last'.reason = "transient" /\ last'.id = id
         /\ reconnectionAttempts[id] # NoInfo
         /\ now - reconnectionAttempts[id].lastAttempt
               < reconnectionAttempts[id].backoffMs)
        => /\ reconnectionAttempts' = reconnectionAttempts
           /\ timers' = timers
           /\ Len(socks') = Len(socks)]_vars

\* A transient close has been skipped: it arrived after the counted one and
\* before its backoff elapsed; the only timer pending is the first one's.
C6_Witness ==
    /\ last.op = "close"
    /\ last.reason = "transient"
    /\ reconnectionAttempts[last.id].attempts = 1
    /\ reconnectionAttempts[last.id].lastAttempt < now
    /\ now - reconnectionAttempts[last.id].lastAttempt
          < reconnectionAttempts[last.id].backoffMs
    /\ Cardinality(timers) = 1

\* C7: the backoff for attempts is min(1000 * 2^attempts, 300000) plus the
\* jitter, at least 1000 and below 301000; while 1000 * 2^attempts is below
\* the cap, the backoff for attempts + 1 is not smaller, whatever the two
\* jitters.
C7_BackoffBounds ==
    probe.done =>
        /\ probe.lo = Min(1000 * 2^probe.attempts, 300000) + probe.j1
        /\ probe.lo >= 1000
        /\ probe.lo < 301000
        /\ probe.hi < 301000
        /\ (1000 * 2^probe.attempts < 300000 => probe.hi >= probe.lo)

\* The last doubling below the cap, with the largest jitter for attempts and
\* the smallest for attempts + 1, whose backoff is capped.
C7_Witness ==
    /\ probe.done
    /\ 1000 * 2^probe.attempts < 300000
    /\ 1000 * 2^(probe.attempts + 1) > 300000
    /\ probe.j1 = JitterRange - 1
    /\ probe.j2 = 0
    /\ probe.hi = 300000

\* C8: when the socket registered for a session reports open, no reconnect
\* record remains for the id afterwards.
C8_OpenResetsAttempts ==
    (last.op = "open" /\ last.cur) => reconnectionAttempts[last.id] = NoInfo

\* C9: while a session stays registered, attempts decreases only in a step
\* that handles an open (or a restartRequired close, the reconnect WhatsApp
\* itself asks for after pairing, which is no failed attempt).
C9_OnlyOpenResetsAttempts ==
    [][\A id \in Ids :
        (/\ sessions[id] # NoSession
         /\ sessions'[id] # NoSession
         /\ reconnectionAttempts'[id].attempts < reconnectionAttempts[id].attempts)
        => \/ last'.op = "open"
           \/ last'.op = "close" /\ last'.reason = "restartRequired"]_vars

\* C10: when the socket registered for a session reports close with a reason
\* the listener does not name, the session stays registered, its credentials
\* stay in the store and a reconnect is pending.
C10_UnknownReasonKeepsSession ==
    (last.op = "close" /\ last.reason = "unknown" /\ last.cur) =>
        /\ sessions[last.id] # NoSession
        /\ (last.had => redis[last.id] # EmptyHash)
        /\ \E tm \in timers : tm.id = last.id

\* C11: when the socket registered for a session reports close with reason
\* restartRequired, handling the event opens one new socket for the id and
\* registers it, schedules no timer, and does not raise attempts.
C11_RestartReplacesAtOnce ==
    [][(last'.op = "close" /\ last'.reason = "restartRequired" /\ last'.cur) =>
        /\ Len(socks') = Len(socks) + 1
        /\ socks'[Len(socks')] = [id |-> last'.id, listens |-> FALSE, live |-> TRUE]
        /\ sessions'[last'.id].sock = Len(socks')
        /\ timers' = timers
        /\ redis' = redis
        /\ reconnectionAttempts'[last'.id].attempts
              <= reconnectionAttempts[last'.id].attempts]_vars

\* C12: once the socket registered for a session has reported a transient
\* close, a reconnect for the session is pending.
C12_TransientCloseSchedulesReconnect ==
    (last.op = "close" /\ last.reason = "transient" /\ last.cur) =>
        \E tm \in timers : tm.id = last.id

\* C13: a registered session has an open socket or a reconnect pending, and
\* an id with a reconnect pending is registered.
C13_RegisteredIffActive ==
    \A id \in Ids :
        /\ sessions[id] # NoSession =>
              \/ socks[sessions[id].sock].live
              \/ \E tm \in timers : tm.id = id
        /\ (\E tm \in timers : tm.id = id) => sessions[id] # NoSession

\* C14: when getNewQr has registered a waiter and the socket registered for
\* the session then reports a qr, the waiter's promise is resolved with that
\* qr (stated where the session has had a single closure, so that the waiter
\* is the session's).
C14_WaiterGetsChallenge ==
    [][\A c \in DOMAIN waiters :
        (/\ last'.op = "qr" /\ last'.cur
         /\ DOMAIN waiters = {c}
         /\ waiters[c].qrResolver # 0)
        => waiters'[c].promises[waiters[c].qrResolver] = last'.out]_vars

\* C15: an update that carries only a qr leaves the registry, the reconnect
\* records, the timers, the sockets and the store as they were; a closure
\* with no waiter registered is left as it was; and the promise getNewQr
\* returns afterwards is pending, whatever qr came before.
C15_QrChangesNothingElse ==
    [][/\ last'.op = "qr" =>
            /\ sessions' = sessions
            /\ reconnectionAttempts' = reconnectionAttempts
            /\ timers' = timers
            /\ socks' = socks
            /\ redis' = redis
            /\ \A c \in DOMAIN waiters :
                  waiters[c].qrResolver = 0 => waiters'[c] = waiters[c]
       /\ last'.op = "getNewQr" =>
            \E c \in DOMAIN waiters :
                /\ waiters'[c].promises = Append(waiters[c].promises, Pending)
                /\ \A d \in DOMAIN waiters \ {c} : waiters'[d] = waiters[d]]_vars

\* A qr has arrived for a registered session with a reconnect record and
\* stored credentials while getNewQr had never been called.
C15_Witness ==
    /\ last.op = "qr"
    /\ last.cur
    /\ last.had
    /\ reconnectionAttempts[last.id] # NoInfo
    /\ \A c \in DOMAIN waiters : waiters[c] = NoWaiter

\* C16: a closure's qrResolver is unset or belongs to the promise getNewQr
\* returned last, and a qr settles no promise but that one.
C16_LatestWaiterWins ==
    [][/\ \A c \in DOMAIN waiters' :
            waiters'[c].qrResolver \in {0, Len(waiters'[c].promises)}
       /\ last'.op = "qr" =>
            \A c \in DOMAIN waiters : \A i \in 1..Len(waiters[c].promises) :
                waiters'[c].promises[i] # waiters[c].promises[i]
                    => i = Len(waiters[c].promises)]_vars

\* getNewQr was called twice before a qr arrived: the qr has resolved the
\* second promise and the first is still pending.
C16_Witness ==
    /\ last.op = "qr"
    /\ \E c \in DOMAIN waiters :
          /\ Len(waiters[c].promises) = 2
          /\ waiters[c].promises[1] = Pending
          /\ waiters[c].promises[2] = last.out
          /\ waiters[c].qrResolver = 0

\* restoreSessionsFromRedis has returned and app.listen has not been called.
Restored == boot.pc = "done" /\ ~boot.listening

\* C17: when restoreSessionsFromRedis has returned and no createSession it
\* called has thrown, every id with a credential blob in the store is
\* registered, whatever keys the store holds and in whatever order.
C17_RestoresEveryStoredId ==
    (Restored /\ boot.failed = {}) =>
        \A id \in DOMAIN redis :
            redis[id].creds # Nil => sessions[id] # NoSession

\* C18: when createSession has thrown for some ids during the restore loop,
\* every other id with a credential blob in the store is registered when
\* restoreSessionsFromRedis returns.
C18_FailureDoesNotStopRestore ==
    (Restored /\ boot.failed # {}) =>
        \A id \in DOMAIN redis \ boot.failed :
            redis[id].creds # Nil => sessions[id] # NoSession

\* Two ids had credentials; createSession threw for the first and the
\* second has been restored.
C18_Witness ==
    /\ Restored
    /\ Len(boot.sessionIds) = 2
    /\ boot.failed = {boot.sessionIds[1]}
    /\ sessions[boot.sessionIds[2]] # NoSession

\* C19: restoreSessionsFromRedis is started at most once; the server
\* listens, and a request is served, only when it has started once and has
\* returned.
C19_ListenAfterRestore ==
    /\ boot.runs <= 1
    /\ (boot.listening \/ BagCardinality(calls) > 0
            \/ last.op \in {"createFinish", "deleteSession"})
         => (boot.pc = "done" /\ boot.runs = 1)

\* A request has been served after a restore that went through the store's
\* keys and registered a session.
C19_Witness ==
    /\ boot.listening
    /\ last.op = "deleteSession"
    /\ last.cur
    /\ Len(boot.order) > 0
    /\ Len(boot.sessionIds) > 0
    /\ ~boot.aborted

\* C20: createSession(id) for a registered id returns the registered session
\* and leaves the registry, the reconnect records, the sockets, the timers,
\* the store, the snapshots, the waiters and the calls in flight as they were.
C20_CreateExistingChangesNothing ==
    [][last'.op = "createExisting" =>
        /\ last'.out = sessions[last'.id].sock
        /\ last'.out # 0
        /\ UNCHANGED <<sessions, reconnectionAttempts, socks, timers, redis,
                       snapshots, waiters, calls>>]_vars

\* createSession was called for a registered id that has stored credentials,
\* a reconnect record and a pending timer.
C20_Witness ==
    /\ last.op = "createExisting"
    /\ last.had
    /\ last.out = sessions[last.id].sock
    /\ reconnectionAttempts[last.id] # NoInfo
    /\ timers # {}

\* C21: no failure inside an event handler (a rejected credential save, a
\* failed open of the replacement socket, a failed store delete, a failed
\* close of the old socket) leaves the handler as a rejection that nobody
\* handles.
C21_NoFailureEscapes ==
    unhandled = {}

\* C30: a failure of the snapshot load during createSession leaves the
\* session created as usual (registered with a new open socket, the store
\* untouched, the snapshot interval set); a failure of a periodic snapshot
\* write changes nothing: registry, sockets, credentials and the interval
\* stay as they were and no rejection escapes.
C30_SnapshotFailureIsHarmless ==
    [][/\ (last'.op = "createFinish" /\ last'.reason = "loadFailed") =>
            /\ Len(socks') = Len(socks) + 1
            /\ sessions'[last'.id].sock = Len(socks')
            /\ socks'[Len(socks')].live
            /\ redis' = redis
            /\ Len(socks') \in intervals'
            /\ unhandled' = unhandled
       /\ (last'.op = "snapshotTick" /\ last'.reason = "saveFailed") =>
            /\ sessions' = sessions
            /\ socks' = socks
            /\ redis' = redis
            /\ reconnectionAttempts' = reconnectionAttempts
            /\ timers' = timers
            /\ snapshots' = snapshots
            /\ intervals' = intervals
            /\ unhandled' = unhandled]_vars

\* A snapshot write has failed for a session that is registered with the
\* socket its createSession call opened.
C30_Witness ==
    /\ last.op = "snapshotTick"
    /\ last.reason = "saveFailed"
    /\ last.cur

\* C22: for every session id, once no credential save is in flight, the
\* stored blob is the text of the credentials as of the last "creds.update"
\* emitted; and a save whose text equals the stored blob leaves the store as
\* it was.
C22_SavesInEmissionOrder ==
    /\ [](\A id \in StoreIds :
            (auth[id].emitted /\ InFlight(id) = {}) =>
                redis[id].creds = JSONstringify(auth[id].creds))
    /\ [][(/\ pipe # <<>>
           /\ pipe' = Tail(pipe)
           /\ Head(pipe).value = redis[Head(pipe).key].creds) => redis' = redis]_vars

\* Two saves of one session are in flight, with different texts.
C22_Witness ==
    /\ Len(pipe) = 2
    /\ pipe[1].key = pipe[2].key
    /\ pipe[1].value # pipe[2].value

\* C27: loading the credentials of an id with no credential blob returns the
\* freshly initialised credentials; loading an id that has a blob returns
\* the value that blob is the text of; in both cases the store is left as it
\* was.
C27_LoadNeverFails ==
    [][last'.op = "load" =>
        /\ redis[last'.id]["creds"] = Nil => last'.out = InitAuthCreds
        /\ redis[last'.id]["creds"] # Nil =>
              /\ last'.out # Null
              /\ JSONstringify(last'.out) = redis[last'.id]["creds"]
        /\ redis' = redis]_vars

\* The credentials of an id with no field at all have been loaded.
C27_Witness ==
    /\ last.op = "load"
    /\ \A f \in Fields : redis[last.id][f] = Nil
    /\ last.out = InitAuthCreds

\* C28: state.keys.get(type, ids) returns an entry for every id asked for:
\* the null marker when the hash of the session id has no field for the key,
\* else a value whose text is the stored one (for an app-state-sync-key, as
\* an instance of its protobuf class); and the store is left as it was.
C28_GetCoversEveryKey ==
    [][last'.op = "keysGet" =>
        LET got == last'.out IN
        /\ DOMAIN got.data = Range(got.ids)
        /\ \A id \in Range(got.ids) :
              LET stored == redis[last'.id][redisKey(got.type, id)] IN
              /\ stored = Nil => got.data[id] = Null
              /\ stored # Nil =>
                    /\ got.data[id] # Null
                    /\ JSONstringify(got.data[id]) = stored
                    /\ got.data[id].proto = (got.type = "app-state-sync-key")
        /\ redis' = redis]_vars

\* A batch of two keys has been read, one stored and one absent.
C28_Witness ==
    /\ last.op = "keysGet"
    /\ Len(last.out.ids) = 2
    /\ \E id1, id2 \in Range(last.out.ids) :
          /\ last.out.data[id1] = Null
          /\ last.out.data[id2] # Null

\* C29: state.keys.set(data) stores the text of every non-null item under
\* its key, removes the field of every key given with null, and leaves every
\* other field of the hash (the credential blob among them) and the hashes
\* of all other ids as they were.
C29_SetTouchesOnlyItsKeys ==
    [][last'.op = "keysSet" =>
        LET data == last'.out IN
        /\ \A e \in Entries(data) :
              LET item == data[e[1]][e[2]] IN
              redis'[last'.id][redisKey(e[1], e[2])] =
                  IF item = Null THEN Nil ELSE JSONstringify(item)
        /\ \A f \in Fields :
              (\A e \in Entries(data) : redisKey(e[1], e[2]) # f) =>
                  redis'[last'.id][f] = redis[last'.id][f]
        /\ \A other \in StoreIds \ {last'.id} : redis'[other] = redis[other]]_vars

\* A batch has stored one key and given null for another, under an id that
\* has a credential blob, while the other id has fields too.
C29_Witness ==
    /\ last.op = "keysSet"
    /\ \E e1, e2 \in Entries(last.out) :
          /\ last.out[e1[1]][e1[2]] = Null
          /\ last.out[e2[1]][e2[2]] # Null
    /\ redis[last.id]["creds"] # Nil
    /\ \E other \in StoreIds \ {last.id}, f \in Fields : redis[other][f] # Nil

\* C23: a request with the right key for a route on an existing session
\* (info, delete, chats) whose id is not registered is answered 404 "Session
\* not found", no route handler runs, and registry, sockets and store stay
\* as they were; when the id is registered the route's handler runs with the
\* registered session as req.session.
C23_UnknownSessionIs404 ==
    [][(/\ last'.op = "request"
        /\ last'.out.route \in SessionScoped
        /\ last'.out.key = ApiKey) =>
            IF sessions[last'.id] = NoSession
            THEN /\ last'.out.res = Response(404, "Session not found")
                 /\ last'.out.ran = "none"
                 /\ sessions' = sessions
                 /\ socks' = socks
                 /\ redis' = redis
            ELSE /\ last'.out.ran = last'.out.route
                 /\ last'.out.session = sessions[last'.id]]_vars

\* DELETE has been answered 404 for an id that had a session before.
C23_Witness ==
    /\ last.op = "request"
    /\ last.out.route = "delete"
    /\ last.out.res.status = 404
    /\ \E h \in DOMAIN socks : socks[h].id = last.id

\* C24: a route handler runs only for a request whose x-api-key header is
\* the configured key; a request with any other header, or none, is answered
\* 401, runs no handler, and leaves registry, sockets, store and QR waiters
\* as they were.
C24_OnlyTheKeyPasses ==
    [][last'.op = "request" =>
        /\ last'.out.ran # "none" => last'.out.key = ApiKey
        /\ last'.out.key = ApiKey => last'.out.res.status # 401
        /\ last'.out.key # ApiKey =>
              /\ last'.out.res.status = 401
              /\ last'.out.ran = "none"
              /\ last'.out.session = NoSession
              /\ sessions' = sessions
              /\ socks' = socks
              /\ redis' = redis
              /\ waiters' = waiters]_vars

\* DELETE with a wrong key has been refused for a registered session.
C24_Witness ==
    /\ last.op = "request"
    /\ last.out.route = "delete"
    /\ last.out.key = "wrong"
    /\ last.out.res.status = 401
    /\ sessions[last.id] # NoSession

\* C25: the list GET /sessions returns has exactly one entry for every
\* registered id and none for any other id, and the isLoggedIn of an entry
\* tells whether the socket now registered for its id has a user.
C25_ListIsTheRegistry ==
    (last.op = "request" /\ last.out.ran = "list") =>
        LET body == last.out.res.body IN
        /\ \A id \in RequestIds :
              Cardinality({n \in DOMAIN body : body[n].id = id}) =
                  IF sessions[id] # NoSession THEN 1 ELSE 0
        /\ \A n \in DOMAIN body :
              body[n].isLoggedIn = (sessions[body[n].id].sock \in users)

\* A list of two sessions, of which one is logged in.
C25_Witness ==
    /\ last.op = "request"
    /\ last.out.ran = "list"
    /\ Len(last.out.res.body) = 2
    /\ \E m, n \in DOMAIN last.out.res.body :
          /\ last.out.res.body[m].isLoggedIn
          /\ ~last.out.res.body[n].isLoggedIn

\* C26: POST /sessions/:sessionId answers already_logged_in exactly when the
\* socket of the session has a user and the probe succeeded; otherwise it
\* sends nothing yet and registers a new pending promise as the QR waiter of
\* the session; and when the registered socket of the session then produces
\* a challenge, the waiting request's promise is resolved with it (the
\* request is answered with the QR), stated where the id has had a single
\* closure.
C26_PostAnswersOrGivesQr ==
    [][/\ (last'.op = "request" /\ last'.out.route = "create") =>
            LET isHealthy == /\ sessions'[last'.id].sock \in users
                             /\ last'.reason = "probeOk"
            IN  /\ (last'.out.res = Response(200, "already_logged_in")) <=> isHealthy
                /\ isHealthy => waiters' = waiters
                /\ ~isHealthy =>
                      /\ last'.out.res = NoResponse
                      /\ \E c \in DOMAIN waiters' :
                            /\ socks'[c].id = last'.id
                            /\ waiters'[c].qrResolver = Len(waiters'[c].promises)
                            /\ waiters'[c].promises[waiters'[c].qrResolver] = Pending
                            /\ c \in DOMAIN waiters =>
                                  Len(waiters'[c].promises) = Len(waiters[c].promises) + 1
       /\ (last'.op = "qr" /\ last'.cur) =>
            \A c \in DOMAIN waiters :
                (/\ {d \in DOMAIN waiters : socks[d].id = last'.id} = {c}
                 /\ waiters[c].qrResolver # 0)
                => waiters'[c].promises[waiters[c].qrResolver] = last'.out]_vars

\* C31: for a string with at most one '@' that has a device part (a ':'
\* and, later and not next to it, the '@'), normalizeJid returns the string
\* without the text from its first ':' up to, not including, '@'; a string
\* with at most one '@' and no device part, and a value that is not a
\* string, are returned as they are; and for all of these
\* normalizeJid(normalizeJid(j)) = normalizeJid(j).
C31_NormalizeJid ==
    probe.done =>
        LET s == probe.jid.text
            colons == {i \in 1..Len(s) : s[i] = ":"}
            ats == {i \in 1..Len(s) : s[i] = "@"}
            hasDevice == \E i \in colons, j \in ats : j >= i + 2
        IN
        /\ probe.jid.type # "string" =>
              probe.once = probe.jid /\ probe.twice = probe.jid
        /\ (probe.jid.type = "string" /\ Cardinality(ats) <= 1) =>
              /\ probe.once.type = "string"
              /\ probe.once.text =
                    IF hasDevice
                    THEN SubSeq(s, 1, Least(colons) - 1) \o SubSeq(s, Least(ats), Len(s))
                    ELSE s
              /\ probe.twice = probe.once

\* A JID whose device part holds a second ':' has been normalised.
C31_Witness ==
    /\ probe.done
    /\ probe.jid.type = "string"
    /\ probe.jid.text = <<"1", ":", "1", ":", "1", "@">>
    /\ probe.once.text = <<"1", "@">>
    /\ probe.twice.text = <<"1", "@">>

\* C32: a transient close that is counted raises attempts by one, sets
\* lastAttempt to the time of the close and backoffMs to the backoff of the
\* raised attempts, opens no socket and schedules one timer, due backoffMs
\* after the close; a reconnect timer fires not before it is due, once, and
\* opens one socket for its id, which it registers (none when the open
\* fails); and no other step but a createSession call and a restartRequired
\* close opens a socket.
C32_ReconnectAfterBackoff ==
    [][/\ \A id \in Ids :
            (/\ last'.op = "close" /\ last'.reason = "transient" /\ last'.id = id
             /\ \/ reconnectionAttempts'[id] # reconnectionAttempts[id]
                \/ timers' # timers)
            => LET old == reconnectionAttempts[id]
                   new == reconnectionAttempts'[id]
               IN  /\ new.attempts = old.attempts + 1
                   /\ new.lastAttempt = now
                   /\ new.backoffMs - Min(1000 * 2^new.attempts, 300000) \in 0..999
                   /\ Len(socks') = Len(socks)
                   /\ \E tm \in timers' \ timers :
                         /\ tm.id = id
                         /\ tm.due = now + new.backoffMs
                         /\ timers' = timers \cup {tm}
       /\ last'.op \in {"timer", "timerFailed"} =>
            \E tm \in timers :
                /\ tm.id = last'.id
                /\ tm.due <= now
                /\ timers' = timers \ {tm}
                /\ IF last'.op = "timer"
                   THEN /\ Len(socks') = Len(socks) + 1
                        /\ socks'[Len(socks')].id = tm.id
                        /\ sessions'[tm.id].sock = Len(socks')
                   ELSE socks' = socks
       /\ Len(socks') > Len(socks) =>
            \/ last'.op \in {"createFinish", "timer"}
            \/ last'.op = "close" /\ last'.reason = "restartRequired"]_vars

\* The second counted close of a session: attempts is 2 and the timer is due
\* the backoff of 2 attempts after the close.
C32_Witness ==
    /\ last.op = "close"
    /\ last.reason = "transient"
    /\ reconnectionAttempts[last.id].attempts = 2
    /\ reconnectionAttempts[last.id].lastAttempt = now
    /\ reconnectionAttempts[last.id].backoffMs >= 4000
    /\ \E tm \in timers :
          tm.id = last.id /\ tm.due = now + reconnectionAttempts[last.id].backoffMs

\* C39: when the reconnect timer fires and the replacement socket cannot be
\* opened, nothing escapes the callback and the registry (the session and
\* its socket), the sockets, the store and the reconnect record (attempts,
\* lastAttempt, backoffMs) are left as they were.
C39_FailedReconnectKeepsState ==
    [][last'.op = "timerFailed" =>
        /\ sessions' = sessions
        /\ socks' = socks
        /\ redis' = redis
        /\ reconnectionAttempts' = reconnectionAttempts
        /\ waiters' = waiters
        /\ unhandled' = unhandled]_vars

\* The open has failed for a registered session with stored credentials and
\* a reconnect record.
C39_Witness ==
    /\ last.op = "timerFailed"
    /\ sessions[last.id] # NoSession
    /\ redis[last.id].creds # Nil
    /\ reconnectionAttempts[last.id].attempts >= 1
    /\ reconnectionAttempts[last.id].backoffMs > 0

\* C36: for every session id, at most one reconnect timer is pending.
C36_OneTimerPerId ==
    \A id \in Ids : Cardinality({tm \in timers : tm.id = id}) <= 1

\* C35: a close reported by a socket that is not the one registered for its
\* session id (it has been replaced, or the session was deleted) leaves the
\* registry as it was and leaves the registered socket, if there is one, as
\* open as it was.
C35_StaleCloseChangesNothing ==
    [][(last'.op = "close" /\ ~last'.cur) =>
        /\ sessions' = sessions
        /\ sessions[last'.id] # NoSession =>
              socks'[sessions[last'.id].sock].live = socks[sessions[last'.id].sock].live]_vars

\* C34: when the socket registered for a session is a replacement that a
\* reconnect has installed and it reports a qr while a waiter is registered
\* on the session (whose only closure is c), the waiter's promise is
\* resolved with that qr.
C34_WaiterSurvivesReplacement ==
    [][\A c \in DOMAIN waiters :
        (/\ last'.op = "qr" /\ last'.cur
         /\ sessions[last'.id].sock # c
         /\ socks[c].id = last'.id
         /\ DOMAIN waiters = {c}
         /\ waiters[c].qrResolver # 0)
        => waiters'[c].promises[waiters[c].qrResolver] = last'.out]_vars

\* C37: a credential save or a cache snapshot is written under an id only
\* while the id is registered or a createSession call for it is in flight:
\* once deleteSession(id) has completed, nothing is written under id or
\* under "<id>:store" until createSession(id) is called again.
C37_NoWriteAfterDelete ==
    [][(/\ last'.op \in {"snapshotTick", "saveCreds"}
        /\ last'.reason = "saved")
       => \/ sessions[last'.id] # NoSession
          \/ \E call \in BagToSet(calls) : call.id = last'.id]_vars

\* C33: when sock.end() of the registered socket throws inside the listener
\* or inside deleteSession, nothing escapes and the rest is done: the
\* restartRequired branch opens a socket and registers it and resets the
\* reconnect record, the transient branch counts the attempt and schedules
\* the reconnect, and deleteSession removes the session from the registry
\* and its hash from the store.
C33_FailedEndIsSkipped ==
    [][LET id == last'.id
           threw == /\ last'.op \in {"close", "deleteSession"}
                    /\ last'.out.fault = "end"
                    /\ sessions[id].sock # 0
           other == sessions[id].sock # last'.out.sock
       IN  /\ threw => unhandled' = unhandled
           /\ (threw /\ last'.op = "close" /\ last'.reason = "restartRequired" /\ other) =>
                 /\ Len(socks') = Len(socks) + 1
                 /\ socks'[Len(socks')] = [id |-> id, listens |-> FALSE, live |-> TRUE]
                 /\ sessions'[id].sock = Len(socks')
                 /\ reconnectionAttempts'[id] = NoInfo
           /\ (threw /\ last'.op = "close" /\ last'.reason = "transient" /\ other
                  /\ shouldAttemptReconnection(St, id, now)) =>
                 /\ reconnectionAttempts'[id].attempts = reconnectionAttempts[id].attempts + 1
                 /\ \E tm \in timers' \ timers : tm.id = id
           /\ (threw /\ (\/ last'.op = "deleteSession"
                         \/ last'.reason \in {"loggedOut", "unknown"})) =>
                 /\ sessions'[id] = NoSession
                 /\ reconnectionAttempts'[id] = NoInfo
                 /\ redis'[id] = EmptyHash]_vars

\* The listener of a socket that had been replaced has handled
\* restartRequired: end() of the registered socket threw, that socket is
\* still open, and a third socket is registered.
C33_Witness ==
    /\ last.op = "close"
    /\ last.reason = "restartRequired"
    /\ last.out.fault = "end"
    /\ Len(socks) = 3
    /\ sessions[last.id].sock = 3
    /\ socks[3].live
    /\ socks[2].live
    /\ last.out.sock = 1

\* C38: a deleteSession(id) that follows a deleteSession(id), whether the
\* two come from direct calls, from the DELETE route or from the listener
\* on the loggedOut close, leaves the registry, the reconnect records, the
\* sockets, the timers and the store as the first left them, and raises no
\* error.
C38_DeleteTwiceIsDeleteOnce ==
    [][LET Deleted(l) ==
               \/ l.op = "deleteSession"
               \/ l.op = "close" /\ l.reason = "loggedOut"
               \/ l.op = "request" /\ l.out.route = "delete" /\ l.out.res.status = 200
       IN  (Deleted(last) /\ Deleted(last') /\ last'.id = last.id) =>
               UNCHANGED <<sessions, reconnectionAttempts, socks, timers, redis,
                           waiters, unhandled>>]_vars

\* deleteSession has run for an id that had been created, had stored
\* credentials and was deleted before.
C38_Witness ==
    /\ last.op = "deleteSession"
    /\ ~last.cur
    /\ redis[last.id] = EmptyHash
    /\ sessions[last.id] = NoSession
    /\ \E h \in DOMAIN socks : socks[h].id = last.id /\ ~socks[h].live

\* C40: when sock.logout() fails in DELETE /sessions/:sessionId for a
\* registered session, the request is answered 500 and the registry, the
\* sockets, the reconnect records and the store are left as they were.
C40_FailedLogoutKeepsSession ==
    [][(/\ last'.op = "request"
        /\ last'.out.route = "delete"
        /\ last'.reason = "logoutFailed"
        /\ sessions[last'.id] # NoSession) =>
            /\ last'.out.res.status = 500
            /\ UNCHANGED <<sessions, socks, reconnectionAttempts, timers, redis,
                           waiters>>]_vars

\* The logout has failed for a registered session with stored credentials.
C40_Witness ==
    /\ last.op = "request"
    /\ last.out.route = "delete"
    /\ last.reason = "logoutFailed"
    /\ last.out.res.status = 500
    /\ sessions[last.id] # NoSession
    /\ redis[last.id].creds # Nil

====
